---- MODULE Spec2Model ----
(***************************************************************************)
(* PL/v8 handler routines (src/plv8.cc): the procedure cache, the per-user *)
(* global contexts, the per-transaction execution environments and the     *)
(* call / validator / inline entry points, as one state machine.           *)
(*                                                                         *)
(* A Persistent<T> handle, a nullable pointer and a hash-table slot are    *)
(* all modelled as a sequence of length 0 (empty / NULL / absent) or 1.    *)
(***************************************************************************)
EXTENDS Integers, Sequences, FiniteSets, TLC

VARIABLES
    userid,         \* GetUserId(): the effective principal of the session
    start_proc,     \* plv8_start_proc, the plv8.start_proc GUC
    pg_proc,        \* the catalog rows of the functions
    cache,          \* plv8_proc_cache_hash
    ContextVector,  \* the global contexts, one plv8_context per element
    env,            \* the plv8_exec_env records in TopTransactionContext
    exec_env_head,  \* the list rooted at exec_env_head, head first
    flinfo,         \* the call sites (FmgrInfo): fn_oid and fn_extra
    thisXact,       \* history: call sites whose fn_extra was set in this transaction
    lastGet,        \* history: per function, the last plv8_get_proc call
    out             \* what the last entry point did and returned

vars == <<userid, start_proc, pg_proc, cache, ContextVector, env,
          exec_env_head, flinfo, thisXact, lastGet, out>>

----------------------------------------------------------------------------
(* Bounds of the model *)

MaxVer == 2         \* catalog versions a function goes through
MaxEnv == 2         \* plv8_exec_env records one transaction can hold
MaxLen == 2         \* length of an array a set-returning function returns

Fns   == {1, 2}     \* function oids
Users == {10, 20}   \* role oids
Sites == {1, 2}     \* FmgrInfo structures of the host

Empty == <<>>                   \* Persistent<T>() / NULL
New(x) == <<x>>                 \* Persistent<T>::New(x) / a non-NULL pointer
IsEmpty(h) == h = <<>>
Deref(h) == h[1]

----------------------------------------------------------------------------
(* The catalog (pg_type, pg_proc) *)

PseudoTypes == {"trigger", "opaque", "record", "void", "internal", "anyelement"}

\* get_typtype(): TYPTYPE_PSEUDO or TYPTYPE_BASE
get_typtype(t) == IF t \in PseudoTypes THEN "p" ELSE "b"

\* A function definition: argument types, result type, set-returning flag
\* and what becomes of the wrapped source when the engine evaluates it
\* ("ok", "syntax": it does not parse, "toperr": its evaluation throws).
Def(args, ret, retset, src) ==
    [proargtypes |-> args, prorettype |-> ret, proretset |-> retset, prosrc |-> src]

PlainFn     == Def(<<"int4">>,       "int4",     FALSE, "ok")
SetFn       == Def(<<"int4">>,       "int4",     TRUE,  "ok")
SetRecFn    == Def(<<>>,             "record",   TRUE,  "ok")
AnyArgFn    == Def(<<"anyelement">>, "int4",     FALSE, "ok")
InternalFn  == Def(<<>>,             "internal", FALSE, "ok")
TrigFn      == Def(<<>>,             "trigger",  FALSE, "ok")
TrigArgFn   == Def(<<"int4">>,       "trigger",  FALSE, "ok")
OpaqueFn    == Def(<<>>,             "opaque",   FALSE, "ok")
OpaqueArgFn == Def(<<"int4">>,       "opaque",   FALSE, "ok")
SyntaxFn    == Def(<<>>,             "void",     FALSE, "syntax")
TopErrFn    == Def(<<>>,             "int4",     FALSE, "toperr")

\* A pg_proc tuple: its fingerprint (xmin, t_self) and its definition.
ProcTup(ver, def) == [xmin |-> ver, t_self |-> ver, def |-> def]

----------------------------------------------------------------------------
(* The process-wide state a handler works on is passed along as a record P: *)
(*   cache, cv (ContextVector), env, head (exec_env_head),                  *)
(*   inp (what the user code run by this handler does, and what a read of   *)
(*        freed memory yields), spi (the SPI sessions open), frames (the    *)
(*        CallSRFunction frames on the stack), crashed (the backend died)   *)
(*        and                                                               *)
(*   ev  (history: the events of this handler, in order).                   *)
(* An operator that can raise returns [P, ok, val]: the state it leaves,    *)
(* whether it returned, and its value.                                      *)

Ret(P, v)   == [P |-> P, ok |-> TRUE,  val |-> v]
Throw(P, m) == [P |-> P, ok |-> FALSE, val |-> [t |-> "error", msg |-> m]]
Log(P, e)   == [P EXCEPT !.ev = Append(@, e)]

\* js_error::js_error(TryCatch&), lines 1199-1233: the error carries the text
\* of the exception the script threw, a sequence of characters
js_error(P, exception) ==
    [P |-> P, ok |-> FALSE,
     val |-> [t |-> "error", msg |-> "js_error", m_msg |-> exception]]

\* js_error::error_object, lines 1235-1247: the message of the script-side
\* error object, which loses a leading "Error: "
ErrorPrefix == <<"E", "r", "r", "o", "r", ":", " ">>

HasErrorPrefix(m) ==
    Len(m) >= Len(ErrorPrefix) /\ SubSeq(m, 1, Len(ErrorPrefix)) = ErrorPrefix

error_object(m_msg) ==
    IF HasErrorPrefix(m_msg) THEN SubSeq(m_msg, Len(ErrorPrefix) + 1, Len(m_msg))
    ELSE m_msg

\* js_error::rethrow, lines 1249-1257: the host gets m_msg as the message
rethrow(e) == [t |-> "error", msg |-> e.msg, errmsg |-> e.m_msg]

\* The catch clauses of the entry points, lines 238, 261 and 604
Caught(r) ==
    IF ~r.ok /\ "m_msg" \in DOMAIN r.val THEN [r EXCEPT !.val = rethrow(r.val)]
    ELSE r

\* A compiled function: which source it was compiled from, in which context,
\* and with which parameter list.
Function(fn_oid, xmin, ctx, is_trigger, params) ==
    [fn |-> fn_oid, xmin |-> xmin, ctx |-> ctx, trig |-> is_trigger,
     params |-> params]

\* regprocin / regprocedurein of a start_proc name: the oid, or nothing
regprocin(name) ==
    CASE name = "fn1" -> New(1)
      [] name = "fn2" -> New(2)
      [] OTHER        -> Empty

\* The entry hash_search(HASH_ENTER) makes for a new key: only the key is set.
NewCacheEntry(fn_oid) ==
    [fn_oid |-> fn_oid, function |-> Empty, prosrc |-> "NULL",
     fn_xmin |-> 0, fn_tid |-> 0, user_id |-> 0,
     nargs |-> 0, retset |-> FALSE, rettype |-> "", argtypes |-> <<>>]

\* uptodate with the comparison of the tuple locations turned around
uptodateTidDiffers(c, procTup) ==
    /\ ~IsEmpty(c.function)
    /\ c.fn_xmin = procTup.xmin
    /\ c.fn_tid # procTup.t_self
    /\ c.user_id = userid

\* plv8_get_proc, lines 640-643
uptodate(c, procTup) ==
    /\ ~IsEmpty(c.function)
    /\ c.fn_xmin = procTup.xmin
    /\ c.fn_tid = procTup.t_self
    /\ c.user_id = userid

\* LookupEntry that takes every entry it finds for up to date
LookupEntryKeepsStale(P, fn_oid) ==
    IF ~IsEmpty(P.cache[fn_oid]) THEN Deref(P.cache[fn_oid])
    ELSE NewCacheEntry(fn_oid)

\* plv8_get_proc, lines 627-664: the entry after the lookup
LookupEntry(P, fn_oid) ==
    LET found == ~IsEmpty(P.cache[fn_oid])
        c     == Deref(P.cache[fn_oid])
    IN  IF found
        THEN IF uptodate(c, pg_proc[fn_oid])
             THEN c
             ELSE [c EXCEPT !.prosrc = "NULL", !.function = Empty]
        ELSE NewCacheEntry(fn_oid)

\* plv8_get_proc, lines 686-697: the validator's check of the argument types
ArgsRejected(validate, argtypes) ==
    validate /\ \E i \in 1..Len(argtypes) : get_typtype(argtypes[i]) = "p"

plv8_get_proc(P, fn_oid, validate) ==
    LET procTup == pg_proc[fn_oid]
        c0 == LookupEntry(P, fn_oid)
        hit == ~IsEmpty(c0.function)
        disposed == IF IsEmpty(P.cache[fn_oid]) THEN FALSE
                    ELSE ~IsEmpty(Deref(P.cache[fn_oid]).function) /\ ~hit
        P0 == Log(P, [e |-> "get", fn |-> fn_oid, hit |-> hit, disposed |-> disposed])
        c1 == [c0 EXCEPT !.retset  = procTup.def.proretset,
                         !.rettype = procTup.def.prorettype,
                         !.fn_xmin = procTup.xmin,
                         !.fn_tid  = procTup.t_self,
                         !.user_id = userid]
        c2 == [c1 EXCEPT !.prosrc   = procTup.def.prosrc,
                         !.argtypes = procTup.def.proargtypes,
                         !.nargs    = Len(procTup.def.proargtypes)]
    IN  IF hit
        THEN Ret([P0 EXCEPT !.cache[fn_oid] = New(c0)], fn_oid)
        ELSE IF ArgsRejected(validate, procTup.def.proargtypes)
             THEN Throw([P0 EXCEPT !.cache[fn_oid] = New(c1)],
                        "PL/v8 functions cannot accept type")
             ELSE Ret([P0 EXCEPT !.cache[fn_oid] = New(c2)], fn_oid)

----------------------------------------------------------------------------
(* Running user code, the global contexts and compilation *)

\* The position of the first context of `uid` in the vector, 0 if none:
\* the loop of GetGlobalContext, lines 987-994.
RECURSIVE FindContext(_, _, _)
FindContext(cv, uid, i) ==
    IF i > Len(cv) THEN 0
    ELSE IF cv[i].user_id = uid THEN i
    ELSE FindContext(cv, uid, i + 1)

\* User code can run a query that calls a function of this language: the
\* host enters plv8_call_handler again
RECURSIVE plv8_call_handler(_, _, _, _, _)

\* The queries the user code runs: each calls a function through a call site
\* of its own (fn_extra is NULL), which does not outlive the query; an error
\* of the query comes back to the user code as an exception
NestedCalls(P, act) ==
    IF act.calls = <<>> THEN P
    ELSE LET c == act.calls[1]
             Back(r) == [r.P EXCEPT !.inp = P.inp]
         IN  Back(plv8_call_handler([P EXCEPT !.inp.body = c.body], Empty, c.fn,
                                    FALSE, c.trig))

\* fn->Call(): the user code of `fn` runs. It sees the global bindings of the
\* context it was compiled in and leaves one there; it returns or throws.
UserCode(P, fn, entered, act) ==
    LET i  == fn.ctx
        P1 == Log(P, [e |-> "exec", art |-> fn, entered |-> entered,
                      user |-> userid, owner |-> P.cv[i].user_id,
                      saw |-> P.cv[i].dirty])
        Ran(P2) == [P2 EXCEPT !.cv[i].dirty = TRUE]
    IN  Ran(NestedCalls(P1, act))

SPI_OK_CONNECT == 1

\* SPI_connect(): a session is opened
SPI_connect(P) == [P EXCEPT !.spi = @ + 1]

\* SPI_finish(): the session is closed
SPI_finish(P) == [P EXCEPT !.spi = @ - 1]

\* DoCall that looks at the result before it closes the session
DoCallFinishLast(P, fn, entered, act) ==
    LET Outcome(P1) ==
            IF act.throws
            THEN js_error(Log(P1, [e |-> "called", before |-> P.spi, open |-> P1.spi]),
                          act.exception)
            ELSE IF act.status < 0
            THEN Throw(Log(SPI_finish(P1),
                           [e |-> "called", before |-> P.spi, open |-> P1.spi - 1]),
                       "SPI status")
            ELSE Ret(Log(SPI_finish(P1),
                         [e |-> "called", before |-> P.spi, open |-> P1.spi - 1]),
                     act.ret)
    IN  IF act.connect # SPI_OK_CONNECT
        THEN Throw(P, "could not connect to SPI manager")
        ELSE Outcome(UserCode(SPI_connect(P), fn, entered, act))

\* DoCall, lines 273-291. The "called" event tells how many sessions were open
\* when the function was invoked and how many are when its outcome is known.
DoCall(P, fn, entered, act) ==
    LET Finished(P2) == Log(P2, [e |-> "called", before |-> P.spi, open |-> P2.spi])
        Outcome(P2) ==
            IF act.throws THEN js_error(P2, act.exception)
            ELSE IF act.status < 0 THEN Throw(P2, "SPI status")
            ELSE Ret(P2, act.ret)
        Called(P1) == Outcome(Finished(SPI_finish(P1)))
    IN  IF act.connect # SPI_OK_CONNECT
        THEN Throw(P, "could not connect to SPI manager")
        ELSE Called(UserCode(SPI_connect(P), fn, entered, act))

\* A compilation that fails is noted in the history
CompileFails(P, proname, why, is_trigger, proarglen) ==
    Throw(Log(P, [e |-> "compilefail", fn |-> proname, why |-> why,
                  trig |-> is_trigger, nargs |-> proarglen]),
          "js_error")

\* Compile, lines 791-797, passes cache->prosrc by pointer. A plv8_get_proc of
\* the same function that runs meanwhile (lines 647-651) frees that text: what
\* CompileFunction then reads at line 843 is the text still, or anything else.
SourceRead(before, after, proname, prosrc) ==
    IF \E i \in (Len(before.ev) + 1)..Len(after.ev) :
            after.ev[i].e = "get" /\ after.ev[i].fn = proname
    THEN IF after.inp.freed = "same" THEN prosrc ELSE "syntax"
    ELSE prosrc

\* CompileFunction, lines 829-830: the parameters of a trigger function
TriggerParams ==
    <<"NEW", "OLD", "TG_NAME", "TG_WHEN", "TG_LEVEL", "TG_OP", "TG_RELID",
      "TG_TABLE_NAME", "TG_TABLE_SCHEMA", "TG_ARGV">>

\* CompileFunction, lines 823-845: the parameter list of the function. The
\* arguments have no names here: argument i is $i.
ParamList(is_trigger, proarglen) ==
    IF is_trigger THEN TriggerParams
    ELSE [i \in 1..proarglen |-> <<"$", i>>]

\* Evaluate that takes the arguments of a trigger function as they come
EvaluateAnyArgs(P, proname, xmin, context, proarglen, src, is_trigger) ==
    IF src = "syntax"
    THEN CompileFails(P, proname, "script", is_trigger, proarglen)
    ELSE IF src = "toperr"
    THEN CompileFails(P, proname, "run", is_trigger, proarglen)
    ELSE Ret(P, Function(proname, xmin, context, is_trigger,
                         ParamList(is_trigger, proarglen)))

\* CompileFunction, lines 818-866: the source is wrapped and evaluated
Evaluate(P, proname, xmin, context, proarglen, src, is_trigger) ==
    IF is_trigger /\ proarglen # 0
    THEN CompileFails(P, proname, "trigger function cannot have arguments",
                      is_trigger, proarglen)
    ELSE IF src = "syntax"                                  \* script.IsEmpty()
    THEN CompileFails(P, proname, "script", is_trigger, proarglen)
    ELSE IF src = "toperr"                                  \* result.IsEmpty()
    THEN CompileFails(P, proname, "run", is_trigger, proarglen)
    ELSE Ret(P, Function(proname, xmin, context, is_trigger,
                         ParamList(is_trigger, proarglen)))

\* GetGlobalContext calls the start-up function, whose compilation calls
\* GetGlobalContext
RECURSIVE GetGlobalContext(_)

\* CompileFunction, lines 803-867
CompileFunction(P, proname, xmin, proarglen, prosrc, is_trigger) ==
    LET Entered(g) ==
            IF g.ok
            THEN Evaluate(g.P, proname, xmin, g.val, proarglen,
                          SourceRead(P, g.P, proname, prosrc), is_trigger)
            ELSE g
    IN  Entered(GetGlobalContext(P))

\* Compile, lines 788-800: the function is compiled if the entry has none
CompileIfEmpty(P, fn_oid, is_trigger) ==
    LET c == Deref(P.cache[fn_oid])
        Compiled(f) ==
            IF f.ok
            THEN Ret(Log([f.P EXCEPT !.cache[fn_oid][1].function = New(f.val)],
                         [e |-> "compile", fn |-> fn_oid, art |-> f.val]),
                     fn_oid)
            ELSE f
    IN  IF ~IsEmpty(c.function) THEN Ret(P, fn_oid)
        ELSE Compiled(CompileFunction(P, fn_oid, c.fn_xmin, c.nargs, c.prosrc,
                                      is_trigger))

\* The outcome of a Compile is noted in the history
Noted(c, fn_oid) ==
    [c EXCEPT !.P = Log(@, [e |-> "got", fn |-> fn_oid, ok |-> c.ok])]

\* Compile, lines 772-801
Compile(P, fn_oid, validate, is_trigger) ==
    LET Got(g) == IF g.ok THEN CompileIfEmpty(g.P, fn_oid, is_trigger)
                  ELSE Throw(g.P, "pg_error")
    IN  Noted(Got(plv8_get_proc(P, fn_oid, validate)), fn_oid)

\* LookupContext that finds nothing
LookupContextNone(P) == Empty

\* GetGlobalContext, lines 983-994: the context of the current user, if any
LookupContext(P) ==
    LET i == FindContext(P.cv, userid, 1)
    IN  IF i # 0 THEN New(P.cv[i].context) ELSE Empty

\* find_js_function, lines 869-908
find_js_function(P, fn_oid) ==
    LET Found(c) == IF c.ok THEN Ret(c.P, Deref(c.P.cache[fn_oid]).function)
                    ELSE Throw(c.P, "pg_error")
    IN  Found(Compile(P, fn_oid, TRUE, FALSE))

\* find_js_function_by_name, lines 913-930
find_js_function_by_name(P, signature) ==
    LET funcoid == regprocin(signature)
        Looked(f) == IF f.ok /\ IsEmpty(f.val)
                     THEN Throw(f.P, "javascript function is not found")
                     ELSE f
    IN  IF IsEmpty(funcoid) THEN Throw(P, "pg_error")
        ELSE Looked(find_js_function(P, Deref(funcoid)))

\* GetGlobalContext, lines 1016-1037: the start-up function is found and run
RunStartProc(P, global_context) ==
    LET Invoked(P1, func) ==
            DoCall(Log(P1, [e |-> "startup", ctx |-> global_context]), func,
                   global_context, P.inp.start)
        Started(f) == IF f.ok THEN Invoked(f.P, Deref(f.val)) ELSE f
    IN  Started(find_js_function_by_name(P, Deref(start_proc)))

\* GetGlobalContext, lines 995-1038: a context is made for the current user
NewGlobalContext(P) ==
    LET global_context == Len(P.cv) + 1                       \* Context::New
        my_context == [context |-> global_context, user_id |-> userid,
                       dirty |-> FALSE, srf |-> Empty]
        P1 == Log([P EXCEPT !.cv = Append(@, my_context)],
                  [e |-> "newctx", ctx |-> global_context, user |-> userid])
        Ran(r) == IF r.ok THEN Ret(r.P, global_context)
                  ELSE [r EXCEPT !.P = Log(@, [e |-> "startfail", user |-> userid])]
    IN  IF IsEmpty(start_proc) THEN Ret(P1, global_context)
        ELSE Ran(RunStartProc(P1, global_context))

\* GetGlobalContext, lines 980-1041
GetGlobalContext(P) ==
    LET found == LookupContext(P)
    IN  IF ~IsEmpty(found) THEN Ret(P, Deref(found)) ELSE NewGlobalContext(P)

----------------------------------------------------------------------------
(* Execution environments *)

FreeEnv == [alloc |-> FALSE, recv |-> Empty, context |-> Empty]

\* MemoryContextAllocZero(TopTransactionContext): the first free place
AllocZero(e) ==
    CHOOSE k \in DOMAIN e : ~e[k].alloc /\ \A j \in DOMAIN e : ~e[j].alloc => k <= j

\* plv8_new_exec_env, lines 190-206: [P, xenv]
plv8_new_exec_env(P) ==
    LET xenv == AllocZero(P.env)
    IN  [P |-> [P EXCEPT !.env[xenv] = [alloc |-> TRUE, recv |-> Empty, context |-> Empty],
                         !.head = <<xenv>> \o @],
         xenv |-> xenv]

\* CreateExecEnv that leaves the context of the new record as it was allocated
CreateExecEnvNoContext(P, function) ==
    LET n == plv8_new_exec_env(P)
        Entered(g) ==
            IF g.ok THEN Ret([g.P EXCEPT !.env[n.xenv].recv = New(function)], n.xenv)
            ELSE g
    IN  Entered(GetGlobalContext(n.P))

\* CreateExecEnv, lines 740-770
CreateExecEnv(P, function) ==
    LET n == plv8_new_exec_env(P)
        Entered(g) ==
            IF g.ok
            THEN Ret([g.P EXCEPT !.env[n.xenv].context = New(g.val),
                                 !.env[n.xenv].recv = New(function)], n.xenv)
            ELSE g
    IN  Entered(GetGlobalContext(n.P))

\* plv8_xact_cb that walks the list and disposes nothing
plv8_xact_cbKeepsRecv(e, head) == e

\* plv8_xact_cb, lines 169-188: the records after the walk of the list
\* (the list itself is emptied by the action)
plv8_xact_cb(e, head) ==
    [k \in DOMAIN e |->
        IF (\E j \in 1..Len(head) : head[j] = k) /\ ~IsEmpty(e[k].recv)
        THEN [e[k] EXCEPT !.recv = Empty]
        ELSE e[k]]

\* The end of TopTransactionContext (comment at lines 182-185): the memory of
\* every record is freed
ResetTopTransactionContext(e) ==
    [k \in DOMAIN e |-> FreeEnv]

----------------------------------------------------------------------------
(* Values of the engine, rows of the database and the Converter *)

Undefined == [t |-> "undefined"]
Null      == [t |-> "null"]
Number(n) == [t |-> "number", v |-> n]
String(x) == [t |-> "string", v |-> x]
Object(p) == [t |-> "object", props |-> p]      \* p: property name -> value
Array(a)  == [t |-> "array", elems |-> a]

IsUndefined(v) == v.t = "undefined"
IsNull(v)      == v.t = "null"
IsArray(v)     == v.t = "array"
IsObject(v)    == v.t \in {"object", "array"}

\* obj->Get(name)
Get(obj, name) ==
    IF obj.t = "object" /\ name \in DOMAIN obj.props
    THEN obj.props[name]
    ELSE Undefined

\* A column of a row: a datum and its null flag
Datum(d)  == [isnull |-> FALSE, datum |-> d]
NullDatum == [isnull |-> TRUE, datum |-> 0]

\* ::ToValue of plv8_type.cc for an int4 column
ToValue(d) == IF d.isnull THEN Null ELSE Number(d.datum)

\* ::ToDatum of plv8_type.cc for an int4 column: [ok, val]
ToDatum(v) ==
    IF IsUndefined(v) \/ IsNull(v) THEN [ok |-> TRUE, val |-> NullDatum]
    ELSE IF v.t = "number" THEN [ok |-> TRUE, val |-> Datum(v.v)]
    ELSE [ok |-> FALSE, val |-> NullDatum]

\* Converter::ToValue, lines 1114-1138: obj->Set for each column in turn, so
\* a property has the value of the last column of its name
ConverterToValue(colnames, tuple) ==
    LET last(n) == CHOOSE c \in 1..Len(colnames) :
                      /\ colnames[c] = n
                      /\ \A c2 \in (c + 1)..Len(colnames) : colnames[c2] # n
    IN  Object([n \in {colnames[c] : c \in 1..Len(colnames)} |->
                  ToValue(tuple[last(n)])])

\* Converter::ToDatum, lines 1163-1170: the value the column c is taken from
ColumnAttr(colnames, is_scalar, value, c) ==
    IF is_scalar THEN value ELSE Get(value, colnames[c])

\* Converter::ToDatum that takes a value that is not an object for an object
\* without properties
ConverterToDatumAnyValue(colnames, is_scalar, value) ==
    LET col(c) ==
            LET attr == ColumnAttr(colnames, is_scalar, value, c)
            IN  IF IsUndefined(attr) \/ IsNull(attr)
                THEN [ok |-> TRUE, val |-> NullDatum]
                ELSE ToDatum(attr)
    IN  IF \E c \in 1..Len(colnames) : ~col(c).ok
        THEN [ok |-> FALSE, val |-> "js_error"]
        ELSE [ok |-> TRUE, val |-> [c \in 1..Len(colnames) |-> col(c).val]]

\* Converter::ToDatum for which a column without a value is an error
ConverterToDatumStrict(colnames, is_scalar, value) ==
    LET col(c) ==
            LET attr == ColumnAttr(colnames, is_scalar, value, c)
            IN  IF IsUndefined(attr) \/ IsNull(attr)
                THEN [ok |-> FALSE, val |-> NullDatum]
                ELSE ToDatum(attr)
    IN  IF ~is_scalar /\ ~IsObject(value)
        THEN [ok |-> FALSE, val |-> "argument must be an object"]
        ELSE IF \E c \in 1..Len(colnames) : ~col(c).ok
             THEN [ok |-> FALSE, val |-> "js_error"]
             ELSE [ok |-> TRUE, val |-> [c \in 1..Len(colnames) |-> col(c).val]]

\* Converter::ToDatum, lines 1140-1186: [ok, val], val the row formed
ConverterToDatum(colnames, is_scalar, value) ==
    LET col(c) ==
            LET attr == ColumnAttr(colnames, is_scalar, value, c)
            IN  IF IsUndefined(attr) \/ IsNull(attr)
                THEN [ok |-> TRUE, val |-> NullDatum]
                ELSE ToDatum(attr)
    IN  IF ~is_scalar /\ ~IsObject(value)
        THEN [ok |-> FALSE, val |-> "argument must be an object"]
        ELSE IF \E c \in 1..Len(colnames) : ~col(c).ok
             THEN [ok |-> FALSE, val |-> "js_error"]
             ELSE [ok |-> TRUE, val |-> [c \in 1..Len(colnames) |-> col(c).val]]

\* CallSRFunction, lines 414-421: the elements of the array are put into the
\* tuplestore in index order, until one fails
RECURSIVE PutArray(_, _, _, _, _)
PutArray(colnames, is_scalar, elems, i, tupstore) ==
    IF i > Len(elems) THEN [ok |-> TRUE, val |-> tupstore]
    ELSE LET r == ConverterToDatum(colnames, is_scalar, elems[i])
         IN  IF ~r.ok THEN [ok |-> FALSE, val |-> tupstore]
             ELSE PutArray(colnames, is_scalar, elems, i + 1, Append(tupstore, r.val))

\* StoreResult with null taken, like undefined, for "no additional values"
StoreResultNullIsNone(colnames, is_scalar, result, tupstore) ==
    IF IsUndefined(result) \/ IsNull(result) THEN [ok |-> TRUE, val |-> tupstore]
    ELSE IF IsArray(result)
         THEN PutArray(colnames, is_scalar, result.elems, 1, tupstore)
    ELSE LET r == ConverterToDatum(colnames, is_scalar, result)
         IN  IF ~r.ok THEN [ok |-> FALSE, val |-> tupstore]
             ELSE [ok |-> TRUE, val |-> Append(tupstore, r.val)]

\* CallSRFunction, lines 410-431: the tuplestore after the result is stored
StoreResult(colnames, is_scalar, result, tupstore) ==
    IF IsUndefined(result) THEN [ok |-> TRUE, val |-> tupstore]
    ELSE IF IsArray(result)
         THEN PutArray(colnames, is_scalar, result.elems, 1, tupstore)
    ELSE LET r == ConverterToDatum(colnames, is_scalar, result)
         IN  IF ~r.ok THEN [ok |-> FALSE, val |-> tupstore]
             ELSE [ok |-> TRUE, val |-> Append(tupstore, r.val)]

ZeroDatum == [t |-> "zero"]                     \* (Datum) 0
TupleDatum(tup) == [t |-> "tuple", row |-> tup] \* PointerGetDatum(tuple)

\* CallTrigger, lines 457-490: <<result, NEW, OLD>> before the call
TriggerArgs(colnames, trig) ==
    IF trig.row
    THEN CASE trig.op = "INSERT" ->
                <<TupleDatum(trig.tg_trigtuple),
                  ConverterToValue(colnames, trig.tg_trigtuple), Undefined>>
           [] trig.op = "DELETE" ->
                <<TupleDatum(trig.tg_trigtuple),
                  Undefined, ConverterToValue(colnames, trig.tg_trigtuple)>>
           [] trig.op = "UPDATE" ->
                <<TupleDatum(trig.tg_newtuple),
                  ConverterToValue(colnames, trig.tg_newtuple),
                  ConverterToValue(colnames, trig.tg_trigtuple)>>
           [] OTHER -> <<ZeroDatum, Undefined, Undefined>>
    ELSE <<ZeroDatum, Undefined, Undefined>>

\* TriggerResult without the test for null
TriggerResultNullConverted(colnames, trig, result, newtup) ==
    IF trig.op = "UPDATE" /\ ~IsUndefined(newtup)
    THEN LET r == ConverterToDatum(colnames, FALSE, newtup)
         IN  IF r.ok THEN [ok |-> TRUE, val |-> TupleDatum(r.val)] ELSE r
    ELSE [ok |-> TRUE, val |-> result]

\* CallTrigger, lines 545-558: the result of the trigger call, [ok, val]
TriggerResult(colnames, trig, result, newtup) ==
    IF trig.op = "UPDATE" /\ ~(IsUndefined(newtup) \/ IsNull(newtup))
    THEN LET r == ConverterToDatum(colnames, FALSE, newtup)
         IN  IF r.ok THEN [ok |-> TRUE, val |-> TupleDatum(r.val)] ELSE r
    ELSE [ok |-> TRUE, val |-> result]

----------------------------------------------------------------------------
(* The three kinds of call and the entry points *)

\* The backend process dies (a wild pointer was followed)
Crash(P) == [P |-> [P EXCEPT !.crashed = TRUE], ok |-> FALSE, val |-> [t |-> "crash"]]

\* xenv->recv->GetInternalField(0) and xenv->context can be used only if the
\* record is there and its handles are not empty; a freed record or an empty
\* handle is a wild pointer for the engine.
Usable(P, xenv) ==
    /\ P.env[xenv].alloc
    /\ ~IsEmpty(P.env[xenv].recv)
    /\ ~IsEmpty(P.env[xenv].context)

\* CallFunction, lines 293-313
CallFunction(P, xenv, has_rettype) ==
    IF ~Usable(P, xenv) THEN Crash(P)
    ELSE LET Result(d) ==
                 IF ~d.ok THEN d
                 ELSE IF ~has_rettype THEN Ret(d.P, [t |-> "void"])
                 ELSE IF ~ToDatum(d.val).ok THEN Throw(d.P, "js_error")
                 ELSE Ret(d.P, [t |-> "datum", d |-> ToDatum(d.val).val])
         IN  Result(DoCall(P, Deref(P.env[xenv].recv), Deref(P.env[xenv].context),
                           P.inp.body))

\* CallSRFunction, lines 362-432. The internal fields PLV8_INTNL_CONV and
\* PLV8_INTNL_TUPSTORE of the plv8 object of the context are the field srf of
\* its plv8_context: nothing, or the frame whose conv and tupstore they point
\* to. The "srf" event tells what the fields held when the call began (prev)
\* and what they hold when it is over (left).
CallSRFunction(P, xenv, colnames, is_scalar) ==
    IF ~Usable(P, xenv) THEN Crash(P)
    ELSE LET context == Deref(P.env[xenv].context)
             conv == P.frames + 1
             conv_prev == P.cv[context].srf
             Over(r) ==
                 [r EXCEPT !.P = Log([r.P EXCEPT !.frames = P.frames],
                                     [e |-> "srf", frame |-> conv, prev |-> conv_prev,
                                      left |-> r.P.cv[context].srf])]
             Stored(P1, r) ==
                 [P |-> P1, ok |-> r.ok, val |-> [t |-> "tuplestore", rows |-> r.val]]
             Result(d) ==
                 IF ~d.ok THEN d
                 ELSE Stored([d.P EXCEPT !.cv[context].srf = conv_prev],
                             StoreResult(colnames, is_scalar, d.val, <<>>))
         IN  Over(Result(DoCall([P EXCEPT !.cv[context].srf = New(conv),
                                          !.frames = conv],
                                Deref(P.env[xenv].recv), Deref(P.env[xenv].context),
                                P.inp.body)))

\* CallTrigger, lines 434-559
CallTrigger(P, xenv, colnames, trig) ==
    IF ~Usable(P, xenv) THEN Crash(P)
    ELSE LET Converted(P1, a, r) ==
                 IF ~r.ok THEN Throw(P1, "js_error")
                 ELSE Ret(P1, [t |-> "trigger", result |-> r.val,
                               new |-> a[2], old |-> a[3]])
             Returned(a, d) ==
                 IF ~d.ok THEN d
                 ELSE Converted(d.P, a, TriggerResult(colnames, trig, a[1], d.val))
         IN  Returned(TriggerArgs(colnames, trig),
                      DoCall(P, Deref(P.env[xenv].recv), Deref(P.env[xenv].context),
                             P.inp.body))

\* The columns of the relation a trigger is on, and of a set result
RelCols == <<"a", "b">>
SetCols(is_scalar) == IF is_scalar THEN <<"a">> ELSE RelCols

\* plv8_call_handler, lines 218-224: [P, ok, val], val the fn_extra to use
BindSite(P, fn_extra, fn_oid, is_trigger) ==
    IF ~IsEmpty(fn_extra) THEN Ret(P, fn_extra)
    ELSE LET Created(x) ==
                 IF x.ok THEN Ret(x.P, New([cache |-> fn_oid, xenv |-> x.val]))
                 ELSE x
             Compiled(c) ==
                 IF c.ok
                 THEN Created(CreateExecEnv(c.P, Deref(Deref(c.P.cache[fn_oid]).function)))
                 ELSE c
         IN  Compiled(Compile(P, fn_oid, FALSE, is_trigger))

\* plv8_call_handler, lines 226-236
Dispatch(P, proc, is_trigger, trig) ==
    LET pcache == Deref(P.cache[proc.cache])
        is_scalar == pcache.rettype # "record"
    IN  IF is_trigger
        THEN CallTrigger(P, proc.xenv, RelCols, trig)
        ELSE IF pcache.retset
             THEN CallSRFunction(P, proc.xenv, SetCols(is_scalar), is_scalar)
             ELSE CallFunction(P, proc.xenv, TRUE)

Returning(r, fn_extra) ==
    [P |-> r.P, ok |-> r.ok, val |-> Caught(r).val, fn_extra |-> fn_extra]

\* plv8_call_handler, lines 208-242: [P, ok, val, fn_extra]
plv8_call_handler(P, fn_extra, fn_oid, is_trigger, trig) ==
    LET Bound(b) ==
            IF b.ok
            THEN Returning(Dispatch(b.P, Deref(b.val), is_trigger, trig), b.val)
            ELSE Returning(b, Empty)
    IN  Bound(BindSite(P, fn_extra, fn_oid, is_trigger))

\* RetTypeRejected with OPAQUE taken for a trigger whatever the arguments
RetTypeRejectedOpaqueAny(def) ==
    /\ get_typtype(def.prorettype) = "p"
    /\ ~(def.prorettype = "trigger" \/ def.prorettype = "opaque")
    /\ def.prorettype # "record"
    /\ def.prorettype # "void"

\* plv8_call_validator, lines 576-592: the result type is refused
RetTypeRejected(def) ==
    /\ get_typtype(def.prorettype) = "p"
    /\ ~(def.prorettype = "trigger"
         \/ (def.prorettype = "opaque" /\ Len(def.proargtypes) = 0))
    /\ def.prorettype # "record"
    /\ def.prorettype # "void"

\* plv8_call_validator, lines 583-585
ValidatorIsTrigger(def) ==
    /\ get_typtype(def.prorettype) = "p"
    /\ (def.prorettype = "trigger"
        \/ (def.prorettype = "opaque" /\ Len(def.proargtypes) = 0))

\* plv8_call_validator, lines 561-608
plv8_call_validator(P, fn_oid) ==
    LET def == pg_proc[fn_oid].def
        Created(x) == IF x.ok THEN Ret(x.P, [t |-> "void"]) ELSE x
        Compiled(c) ==
            IF c.ok
            THEN Created(CreateExecEnv(c.P, Deref(Deref(c.P.cache[fn_oid]).function)))
            ELSE c
    IN  IF RetTypeRejected(def) THEN Throw(P, "PL/v8 functions cannot return type")
        ELSE Caught(Compiled(Compile(P, fn_oid, TRUE, ValidatorIsTrigger(def))))

\* plv8_inline_handler that compiles the code as function 1, through Compile
plv8_inline_handlerCached(P, source_text) ==
    LET Created(x) == IF x.ok THEN CallFunction(x.P, x.val, FALSE) ELSE x
        Compiled(c) ==
            IF c.ok THEN Created(CreateExecEnv(c.P, Deref(Deref(c.P.cache[1]).function)))
            ELSE c
    IN  Compiled(Compile(P, 1, FALSE, FALSE))

\* plv8_inline_handler, lines 245-265
plv8_inline_handler(P, source_text) ==
    LET Created(x) == IF x.ok THEN CallFunction(x.P, x.val, FALSE) ELSE x
        Compiled(f) == IF f.ok THEN Created(CreateExecEnv(f.P, f.val)) ELSE f
    IN  Caught(Compiled(CompileFunction(P, 0, 0, 0, source_text, FALSE)))

----------------------------------------------------------------------------
(* The state machine *)

Idle == [op |-> "host", status |-> "ok", ev |-> <<>>]

\* What a run of user code meets and does: SPI_connect gives `connect`, the
\* code runs the queries `calls`, it returns `ret` or throws, and SPI_finish
\* gives `status`
Act(throws, ret) ==
    [throws |-> throws, ret |-> ret, connect |-> SPI_OK_CONNECT, status |-> 0,
     calls |-> <<>>, exception |-> IF throws THEN <<"x">> ELSE <<>>]

\* What a run of user code does: it returns one of `rets`, or it throws
Acts(rets) ==
    {Act(FALSE, r) : r \in rets} \cup {Act(TRUE, Undefined)}

\* The validator runs no body
NoBody == Act(FALSE, Undefined)

\* What a read of freed memory can yield
Freed == {"same", "other"}

NoTrig == [row |-> FALSE, op |-> "NONE",
           tg_trigtuple |-> <<NullDatum, NullDatum>>,
           tg_newtuple |-> <<NullDatum, NullDatum>>]

\* TopTransactionContext has room for the plv8_exec_env of the call (if its
\* call site is new) and of the calls the user code makes
RoomFor(fresh, body, start) ==
    Cardinality({k \in 1..MaxEnv : ~env[k].alloc})
        >= (IF fresh THEN 1 ELSE 0) + Len(body.calls) + Len(start.calls)

Process(body, start, freed) ==
    [cache |-> cache, cv |-> ContextVector, env |-> env, head |-> exec_env_head,
     inp |-> [body |-> body, start |-> start, freed |-> freed],
     spi |-> 0, frames |-> 0, ev |-> <<>>, crashed |-> FALSE]

\* The last "got" event of fn_oid in ev, as the record lastGet keeps
LastGot(ev, fn_oid, before) ==
    LET idx == {i \in 1..Len(ev) : ev[i].e = "got" /\ ev[i].fn = fn_oid}
        last == CHOOSE i \in idx : \A j \in idx : j <= i
    IN  IF idx = {} THEN before
        ELSE New([xmin |-> pg_proc[fn_oid].xmin, tid |-> pg_proc[fn_oid].t_self,
                  user |-> userid, ok |-> ev[last].ok])

Commit(P) ==
    /\ cache' = P.cache
    /\ ContextVector' = P.cv
    /\ env' = P.env
    /\ exec_env_head' = P.head
    /\ lastGet' = [f \in Fns |-> LastGot(P.ev, f, lastGet[f])]

Status(r) == IF r.P.crashed THEN "crash" ELSE IF r.ok THEN "ok" ELSE "error"

Alive == out.status # "crash"

\* CREATE TRIGGER takes a function without arguments that returns trigger
\* (or, as older dumps have it, opaque)
IsTriggerFunction(def) ==
    /\ def.prorettype \in {"trigger", "opaque"}
    /\ Len(def.proargtypes) = 0

\* The host calls a function through the call site s
Called(s, is_trigger, trig, body, r) ==
    LET fn_oid == flinfo[s].fn_oid
        fresh  == IsEmpty(flinfo[s].fn_extra)
    IN  /\ Commit(r.P)
        /\ flinfo' = [flinfo EXCEPT ![s].fn_extra = r.fn_extra]
        /\ thisXact' = IF fresh /\ ~IsEmpty(r.fn_extra) THEN thisXact \cup {s} ELSE thisXact
        /\ out' = [op |-> "call", status |-> Status(r), ev |-> r.P.ev, val |-> r.val,
                   spi |-> r.P.spi,
                   site |-> s, fn |-> fn_oid, fresh |-> fresh,
                   thisxact |-> fresh \/ s \in thisXact, trigger |-> is_trigger,
                   trig |-> trig, body |-> body]
        /\ UNCHANGED <<userid, start_proc, pg_proc>>

CallHandler(s, is_trigger, trig, body, start, freed) ==
    /\ Alive
    /\ RoomFor(IsEmpty(flinfo[s].fn_extra), body, start)
    /\ is_trigger => IsTriggerFunction(pg_proc[flinfo[s].fn_oid].def)
    /\ Called(s, is_trigger, trig, body,
              plv8_call_handler(Process(body, start, freed), flinfo[s].fn_extra,
                                flinfo[s].fn_oid, is_trigger, trig))

\* The host validates a function
Validated(fn_oid, r) ==
    /\ Commit(r.P)
    /\ out' = [op |-> "validate", status |-> Status(r), ev |-> r.P.ev, fn |-> fn_oid,
               spi |-> r.P.spi]
    /\ UNCHANGED <<userid, start_proc, pg_proc, flinfo, thisXact>>

Validator(fn_oid, start, freed) ==
    /\ Alive
    /\ RoomFor(TRUE, NoBody, start)
    /\ Validated(fn_oid,
                 plv8_call_validator(Process(NoBody, start, freed), fn_oid))

\* The host runs an anonymous code block
InlineDone(body, r) ==
    /\ Commit(r.P)
    /\ out' = [op |-> "inline", status |-> Status(r), ev |-> r.P.ev, spi |-> r.P.spi,
               body |-> body, val |-> r.val]
    /\ UNCHANGED <<userid, start_proc, pg_proc, flinfo, thisXact>>

InlineHandler(source_text, body, start, freed) ==
    /\ Alive
    /\ RoomFor(TRUE, body, start)
    /\ InlineDone(body, plv8_inline_handler(Process(body, start, freed), source_text))

\* A transaction ends, by commit or by abort
XactEnd ==
    LET e == plv8_xact_cb(env, exec_env_head)
    IN  /\ Alive
        /\ env' = ResetTopTransactionContext(e)
        /\ exec_env_head' = <<>>
        /\ thisXact' = {}
        /\ out' = [op |-> "xact", status |-> "ok", ev |-> <<>>, released |-> e]
        /\ UNCHANGED <<userid, start_proc, pg_proc, cache, ContextVector, flinfo, lastGet>>

\* The effective principal changes (SET ROLE, a SECURITY DEFINER function)
SetUserId(u) ==
    /\ Alive
    /\ u # userid
    /\ userid' = u
    /\ out' = Idle
    /\ UNCHANGED <<start_proc, pg_proc, cache, ContextVector, env, exec_env_head,
                   flinfo, thisXact, lastGet>>

\* SET plv8.start_proc
SetStartProc(v) ==
    /\ Alive
    /\ v # start_proc
    /\ start_proc' = v
    /\ out' = Idle
    /\ UNCHANGED <<userid, pg_proc, cache, ContextVector, env, exec_env_head,
                   flinfo, thisXact, lastGet>>

\* CREATE OR REPLACE FUNCTION: a new tuple, with a new xmin, at a new place
ReplaceFunction(fn_oid, def) ==
    /\ Alive
    /\ pg_proc[fn_oid].xmin < MaxVer
    /\ pg_proc' = [pg_proc EXCEPT ![fn_oid] = ProcTup(@.xmin + 1, def)]
    /\ out' = Idle
    /\ UNCHANGED <<userid, start_proc, cache, ContextVector, env, exec_env_head,
                   flinfo, thisXact, lastGet>>

\* The host sets up a call site anew (fmgr_info): fn_extra is NULL
FmgrInfo(s, fn_oid) ==
    /\ Alive
    /\ flinfo' = [flinfo EXCEPT ![s] = [fn_oid |-> fn_oid, fn_extra |-> Empty]]
    /\ flinfo' # flinfo
    /\ thisXact' = thisXact \ {s}
    /\ out' = Idle
    /\ UNCHANGED <<userid, start_proc, pg_proc, cache, ContextVector, env,
                   exec_env_head, lastGet>>

\* The state of a fresh backend, with the catalog drawn from `procs`
InitWith(procs) ==
    /\ userid = 10
    /\ start_proc = Empty
    /\ pg_proc \in procs
    /\ cache = [f \in Fns |-> Empty]
    /\ ContextVector = <<>>
    /\ env = [k \in 1..MaxEnv |-> FreeEnv]
    /\ exec_env_head = <<>>
    /\ flinfo = [s \in Sites |-> [fn_oid |-> 1, fn_extra |-> Empty]]
    /\ thisXact = {}
    /\ lastGet = [f \in Fns |-> Empty]
    /\ out = Idle

----------------------------------------------------------------------------
(* Spec: the life cycle of compiled functions and execution environments.   *)
(* Function 1 is called through two call sites, validated and redefined,    *)
(* by two principals, over several transactions; no start-up function is    *)
(* configured.                                                              *)

LifeDefs == {PlainFn, SyntaxFn}

Init == InitWith({p \in [Fns -> {ProcTup(1, d) : d \in LifeDefs}] : p[2].def = PlainFn})

Next ==
    \/ \E s \in Sites, body \in Acts({Undefined}) :
            CallHandler(s, FALSE, NoTrig, body, NoBody, "same")
    \/ Validator(1, NoBody, "same")
    \/ XactEnd
    \/ \E u \in Users : SetUserId(u)
    \/ \E d \in LifeDefs : ReplaceFunction(1, d)
    \/ \E s \in Sites : FmgrInfo(s, 1)

Spec == Init /\ [][Next]_vars

----------------------------------------------------------------------------
(* Properties of the life cycle, checked under Spec *)

\* The "exec" events of the last entry point: one for each run of user code
Executions == {i \in 1..Len(out.ev) : out.ev[i].e = "exec"}

\* C1: once the catalog fingerprint of a function has changed, no call of it,
\* at any call site, executes the artifact compiled from the old definition:
\* whatever a call executes was compiled from the catalog row as it is now.
C1_StaleArtifactNeverExecutes ==
    out.op = "call" =>
        \A i \in Executions :
            out.ev[i].art.fn \in Fns =>
                out.ev[i].art.xmin = pg_proc[out.ev[i].art.fn].xmin

\* The fingerprint and principal of function f as they are now, as lastGet
\* records them for a compilation request that succeeded
CompiledAsNow(f) ==
    New([xmin |-> pg_proc[f].xmin, tid |-> pg_proc[f].t_self,
         user |-> userid, ok |-> TRUE])

\* C2: a request for a function whose last request succeeded under the same
\* catalog fingerprint and the same effective principal compiles nothing and
\* leaves the cache entry, and so the compiled artifact, as it was.
C2_CompiledAtMostOnce ==
    [][\A f \in Fns :
          (/\ lastGet[f] = CompiledAsNow(f)
           /\ \E i \in 1..Len(out'.ev) : out'.ev[i].e = "get" /\ out'.ev[i].fn = f)
          => (/\ \A i \in 1..Len(out'.ev) :
                    ~(out'.ev[i].e \in {"compile", "compilefail"} /\ out'.ev[i].fn = f)
              /\ cache'[f] = cache[f])]_vars

\* C2, witness: a call through a new call site found the entry up to date
C2_Reused ==
    /\ out.op = "call"
    /\ out.status = "ok"
    /\ out.fresh
    /\ lastGet[out.fn] = CompiledAsNow(out.fn)
    /\ \E i \in 1..Len(out.ev) :
          out.ev[i].e = "get" /\ out.ev[i].fn = out.fn /\ out.ev[i].hit

\* C3: distinct principals have distinct contexts, and code running for one
\* principal never observes a global binding written in the context of
\* another: user code that finds bindings runs in its own principal's context.
C3_PrincipalIsolation ==
    /\ \A i, j \in 1..Len(ContextVector) :
          ContextVector[i].user_id # ContextVector[j].user_id
              => ContextVector[i].context # ContextVector[j].context
    /\ \A i \in Executions :
          out.ev[i].saw => out.ev[i].owner = out.ev[i].user

\* C4: no call uses an execution environment made in an earlier transaction:
\* the environment a call goes through was created in the current one.
C4_NoEnvironmentOutlivesTransaction ==
    out.op = "call" => out.thisxact

\* A compilation of f was attempted: CompileFunction was entered for it (and
\* ended with a function, with an error of its own, or in the start-up of
\* the context it asked for)
Attempted(f, ev) ==
    \E i \in 1..Len(ev) :
        \/ ev[i].e \in {"compile", "compilefail"} /\ ev[i].fn = f
        \/ ev[i].e = "startfail"

\* C10: after a compile of a function failed, the next call of that function
\* attempts the compilation again.
C10_NextCallCompilesAgain ==
    [][\A f \in Fns :
          (/\ lastGet[f] # Empty
           /\ ~Deref(lastGet[f]).ok
           /\ out'.op = "call"
           /\ out'.fn = f)
          => Attempted(f, out'.ev)]_vars

----------------------------------------------------------------------------
(* SpecStart: the start-up function. plv8.start_proc is set and reset; it   *)
(* names function 1 (which is also the one called), function 2, or nothing  *)
(* that exists.                                                             *)

StartNames == {"fn1", "fn2", "nosuch"}

InitStart ==
    InitWith({p \in [Fns -> {ProcTup(1, d) : d \in {PlainFn, SyntaxFn, TopErrFn}}] :
                 p[1].def # TopErrFn /\ p[2].def # SyntaxFn})

NextStart ==
    \/ \E body \in Acts({Undefined}), start \in Acts({Undefined}), freed \in Freed :
            CallHandler(1, FALSE, NoTrig, body, start, freed)
    \/ \E start \in Acts({Undefined}), freed \in Freed : Validator(1, start, freed)
    \/ \E src \in {"ok", "syntax"}, body \in Acts({Undefined}),
          start \in Acts({Undefined}), freed \in Freed :
            InlineHandler(src, body, start, freed)
    \/ XactEnd
    \/ \E u \in Users : SetUserId(u)
    \/ \E v \in {Empty} \cup {New(n) : n \in StartNames} : SetStartProc(v)
    \/ FmgrInfo(1, 1)

SpecStart == InitStart /\ [][NextStart]_vars

\* C9: when the start-up function fails while the context of a principal is
\* being created, that principal has no context in the registry afterwards.
C9_FailedStartLeavesNoContext ==
    \A i \in 1..Len(out.ev) :
        out.ev[i].e = "startfail" => FindContext(ContextVector, out.ev[i].user, 1) = 0

\* C17: a validator call never runs the body of the function it validates;
\* and when it succeeded, a call of that function that follows it, the
\* fingerprint and the principal being the same, compiles nothing and runs
\* the artifact the validator left in the procedure cache.
C17_ValidatorCompilesOnly ==
    [][/\ out'.op = "validate" =>
             \A i \in 1..Len(out'.ev) :
                 out'.ev[i].e = "exec" => out'.ev[i].art.fn # out'.fn
       /\ (out.op = "validate" /\ out.status = "ok"
              /\ out'.op = "call" /\ out'.fn = out.fn) =>
             /\ ~IsEmpty(cache[out.fn])
             /\ ~IsEmpty(Deref(cache[out.fn]).function)
             /\ \A i \in 1..Len(out'.ev) :
                   /\ ~(out'.ev[i].e = "compile" /\ out'.ev[i].fn = out.fn)
                   /\ (out'.ev[i].e = "exec" /\ out'.ev[i].art.fn = out.fn)
                         => New(out'.ev[i].art) = Deref(cache[out.fn]).function]_vars

----------------------------------------------------------------------------
(* SpecValidate: validation. Function 1 has any of the definitions below    *)
(* (a function can be in the catalog unvalidated: it was created while the  *)
(* language had no validator); it is validated, called and redefined.       *)

ValidateDefs == {PlainFn, SetRecFn, SyntaxFn, AnyArgFn, InternalFn,
                 TrigFn, TrigArgFn, OpaqueFn, OpaqueArgFn}

UpdateRow == [row |-> TRUE, op |-> "UPDATE",
              tg_trigtuple |-> <<Datum(1), NullDatum>>,
              tg_newtuple |-> <<Datum(2), Datum(3)>>]

InitValidate ==
    InitWith({p \in [Fns -> {ProcTup(1, d) : d \in ValidateDefs}] : p[2].def = PlainFn})

NextValidate ==
    \/ Validator(1, NoBody, "same")
    \/ \E body \in Acts({Undefined}) : CallHandler(1, FALSE, NoTrig, body, NoBody, "same")
    \/ \E body \in Acts({Undefined}) : CallHandler(1, TRUE, UpdateRow, body, NoBody, "same")
    \/ XactEnd
    \/ \E d \in ValidateDefs : ReplaceFunction(1, d)
    \/ FmgrInfo(1, 1)

SpecValidate == InitValidate /\ [][NextValidate]_vars

\* The pseudo-types outside the allowed set {trigger, record, void}
Disallowed(t) == get_typtype(t) = "p" /\ t \notin {"trigger", "record", "void"}

\* C7: the validation of a function that declares an argument of a pseudo-type
\* outside the allowed set fails and leaves the function without a compiled
\* artifact, whatever was done with the function before.
C7_PseudoArgumentFailsValidation ==
    (/\ out.op = "validate"
     /\ \E i \in 1..Len(pg_proc[out.fn].def.proargtypes) :
            Disallowed(pg_proc[out.fn].def.proargtypes[i]))
    => (/\ out.status = "error"
        /\ IsEmpty(cache[out.fn]) \/ IsEmpty(Deref(cache[out.fn]).function))

\* The validation that a step makes, if it makes one, fails before anything is
\* compiled or looked up: the cache is as it was
RejectedAtOnce ==
    /\ out'.status = "error"
    /\ out'.ev = <<>>
    /\ cache' = cache

\* C8 as stated: the validation of a function whose result type is a
\* pseudo-type outside {trigger, record, void} fails before any compilation,
\* and creates no cache entry and no artifact.
C8_PseudoResultFailsValidation ==
    [][(/\ out'.op = "validate"
        /\ Disallowed(pg_proc[out'.fn].def.prorettype))
       => RejectedAtOnce]_vars

\* C8, amended: ... a pseudo-type outside {trigger, record, void}, other than
\* opaque on a function without arguments, ...
C8_PseudoResultButOpaqueTriggerFailsValidation ==
    [][(/\ out'.op = "validate"
        /\ Disallowed(pg_proc[out'.fn].def.prorettype)
        /\ ~(/\ pg_proc[out'.fn].def.prorettype = "opaque"
              /\ Len(pg_proc[out'.fn].def.proargtypes) = 0))
       => RejectedAtOnce]_vars

\* C8, witness: a function that was called and compiled before is validated
\* and refused for its result type
C8_Refused ==
    /\ out.op = "validate"
    /\ out.status = "error"
    /\ pg_proc[out.fn].def.prorettype \in {"internal", "opaque"}
    /\ Len(pg_proc[out.fn].def.proargtypes) > 0 \/ pg_proc[out.fn].def.prorettype = "internal"
    /\ ~IsEmpty(cache[out.fn])
    /\ ~IsEmpty(Deref(cache[out.fn]).function)

----------------------------------------------------------------------------
(* SpecTrigger: function 1 is a trigger function on a relation with the     *)
(* columns a and b; it is fired for every kind of event and returns every   *)
(* kind of value.                                                           *)

TriggerEvents ==
    {UpdateRow,
     [UpdateRow EXCEPT !.op = "INSERT"],
     [UpdateRow EXCEPT !.op = "DELETE"],
     [UpdateRow EXCEPT !.row = FALSE]}

TriggerReturns ==
    {Undefined, Null, Number(7),
     Object([a |-> Number(5), b |-> Null]),
     Object([a |-> Number(5)]),
     Object([a |-> String("x"), b |-> Number(6)])}

InitTrigger ==
    InitWith({p \in [Fns -> {ProcTup(1, d) : d \in {TrigFn, PlainFn}}] :
                 p[1].def = TrigFn /\ p[2].def = PlainFn})

NextTrigger ==
    \/ \E trig \in TriggerEvents, body \in Acts(TriggerReturns) :
            CallHandler(1, TRUE, trig, body, NoBody, "same")
    \/ XactEnd
    \/ \E u \in Users : SetUserId(u)
    \/ FmgrInfo(1, 1)

SpecTrigger == InitTrigger /\ [][NextTrigger]_vars

\* The last entry point was a row-level UPDATE trigger whose function returned
UpdateTriggerReturned ==
    /\ out.op = "call"
    /\ out.trigger
    /\ out.trig.row
    /\ out.trig.op = "UPDATE"
    /\ out.status # "crash"
    /\ Executions # {}
    /\ ~out.body.throws

\* The row an object stands for: a column is the number of the property named
\* like it, and NULL if there is no such property or it is null or undefined
RowOf(colnames, obj) ==
    [c \in 1..Len(colnames) |->
        IF colnames[c] \in DOMAIN obj.props /\ obj.props[colnames[c]].t = "number"
        THEN Datum(obj.props[colnames[c]].v)
        ELSE NullDatum]

\* Every property that names a column can be converted to the column's type
Converts(colnames, obj) ==
    \A c \in 1..Len(colnames) :
        colnames[c] \in DOMAIN obj.props
            => obj.props[colnames[c]].t \in {"number", "null", "undefined"}

\* The function returned a row object, and the call gave that row
GaveRowReturned ==
    out.body.ret.t = "object" /\ Converts(RelCols, out.body.ret)
        => /\ out.status = "ok"
           /\ out.val.result = TupleDatum(RowOf(RelCols, out.body.ret))

----------------------------------------------------------------------------
(* SpecSRF: functions 1 and 2 return sets, of rows (a, b) and of int4; they *)
(* are called and return every kind of value, arrays up to MaxLen long.     *)

SetElements ==
    {Number(1), Null,
     Object([a |-> Number(1), b |-> Number(2)]),
     Object([b |-> Number(3)])}

SetReturns ==
    {Undefined} \cup SetElements
        \cup {Array(a) : a \in UNION {[1..n -> SetElements] : n \in 0..MaxLen}}

InitSRF ==
    InitWith({p \in [Fns -> {ProcTup(1, d) : d \in {SetFn, SetRecFn}}] :
                 p[1].def = SetRecFn /\ p[2].def = SetFn})

NextSRF ==
    \/ \E body \in Acts(SetReturns) : CallHandler(1, FALSE, NoTrig, body, NoBody, "same")
    \/ XactEnd
    \/ \E f \in Fns : FmgrInfo(1, f)

SpecSRF == InitSRF /\ [][NextSRF]_vars

\* The last entry point was a set-returning call whose function returned:
\* out.val is the output collection as the call left it
SetFunctionReturned ==
    /\ out.op = "call"
    /\ out.val.t = "tuplestore"

\* The row a value stands for in the output collection
OutRow(v) ==
    IF pg_proc[out.fn].def.prorettype = "record"
    THEN RowOf(RelCols, v)
    ELSE <<IF v.t = "number" THEN Datum(v.v) ELSE NullDatum>>

\* C6 as stated: nothing is appended for undefined, one row for each element
\* of an array, in index order, and one row for any other value.
C6_RowsOfReturnValue ==
    SetFunctionReturned =>
        LET v == out.body.ret
            elems == IF IsUndefined(v) THEN <<>>
                     ELSE IF IsArray(v) THEN v.elems ELSE <<v>>
        IN  /\ Len(out.val.rows) = Len(elems)
            /\ \A i \in 1..Len(elems) : out.val.rows[i] = OutRow(elems[i])

\* The converter of the output collection takes the value: any value that
\* converts, for a scalar result; an object whose properties convert, for rows
Accepted(v) ==
    IF pg_proc[out.fn].def.prorettype = "record"
    THEN v.t = "object" /\ Converts(RelCols, v)
    ELSE v.t \in {"number", "null", "undefined"}

\* C6, amended: ... one row for each element of an array, in index order, up
\* to the first element the converter does not take, where the call fails;
\* one row for any other value the converter takes, and failure otherwise.
C6_RowsOfAcceptedValues ==
    SetFunctionReturned =>
        LET v == out.body.ret
            elems == IF IsUndefined(v) THEN <<>>
                     ELSE IF IsArray(v) THEN v.elems ELSE <<v>>
            bad == {i \in 1..Len(elems) : ~Accepted(elems[i])}
            n == IF bad = {} THEN Len(elems)
                 ELSE (CHOOSE i \in bad : \A j \in bad : i <= j) - 1
        IN  /\ Len(out.val.rows) = n
            /\ \A i \in 1..n : out.val.rows[i] = OutRow(elems[i])
            /\ out.status = IF bad = {} THEN "ok" ELSE "error"

\* C6, witness: an array of two different elements gave two rows, in order
C6_TwoRows ==
    /\ SetFunctionReturned
    /\ out.status = "ok"
    /\ IsArray(out.body.ret)
    /\ Len(out.body.ret.elems) = 2
    /\ out.body.ret.elems[1] # out.body.ret.elems[2]
    /\ out.val.rows = <<OutRow(out.body.ret.elems[1]), OutRow(out.body.ret.elems[2])>>
    /\ out.val.rows[1] # out.val.rows[2]

\* The values the last set-returning call had to convert, in order
Returned ==
    IF IsUndefined(out.body.ret) THEN <<>>
    ELSE IF IsArray(out.body.ret) THEN out.body.ret.elems
    ELSE <<out.body.ret>>

\* The first position of `elems` that is in `bad`, Len(elems) + 1 if none is
FirstOf(bad, elems) ==
    IF bad = {} THEN Len(elems) + 1
    ELSE CHOOSE i \in bad : \A j \in bad : i <= j

\* C15: a converter that is not scalar-shaped raises an error for a value
\* that is not an object and appends nothing for it: when that value is
\* element k of the returned array the call fails with the k elements before
\* it appended. A scalar-shaped converter takes any value as it is: each row
\* is the scalar conversion of the value itself, object or not.
C15_NonObjectRefused ==
    SetFunctionReturned =>
        IF pg_proc[out.fn].def.prorettype = "record"
        THEN LET k == FirstOf({i \in 1..Len(Returned) : ~IsObject(Returned[i])},
                              Returned)
             IN  k <= Len(Returned) =>
                    /\ out.status = "error"
                    /\ Len(out.val.rows) = k - 1
                    /\ \A i \in 1..(k - 1) : out.val.rows[i] = RowOf(RelCols, Returned[i])
        ELSE LET k == FirstOf({i \in 1..Len(Returned) : ~ToDatum(Returned[i]).ok},
                              Returned)
             IN  /\ out.status = IF k <= Len(Returned) THEN "error" ELSE "ok"
                 /\ Len(out.val.rows) = k - 1
                 /\ \A i \in 1..(k - 1) : out.val.rows[i] = <<ToDatum(Returned[i]).val>>

\* C15, witness: a function returning rows returned an array of an object and
\* a number; the call failed with the row of the object appended
C15_SecondRefused ==
    /\ SetFunctionReturned
    /\ pg_proc[out.fn].def.prorettype = "record"
    /\ IsArray(out.body.ret)
    /\ Len(Returned) = 2
    /\ IsObject(Returned[1])
    /\ Returned[2] = Number(1)
    /\ out.status = "error"
    /\ out.val.rows = <<RowOf(RelCols, Returned[1])>>

----------------------------------------------------------------------------
(* SpecSPI: the SPI sessions. Function 1 is called, validated and run as an  *)
(* anonymous block; its user code can run a query that calls function 2;    *)
(* SPI_connect and SPI_finish can fail; a start-up function can be set.     *)

\* What SPI_finish can give: success, or a negative status
FinishStatus == {0, -1}

\* What SPI_connect can give: SPI_OK_CONNECT, or an error
ConnectStatus == {SPI_OK_CONNECT, -1}

\* The outcomes of a run of user code that runs the queries `calls`: the
\* session cannot be opened; the code throws; it returns and the session is
\* closed, with or without a failure
Outcomes(calls) ==
    {[Act(FALSE, Undefined) EXCEPT !.connect = -1]}
        \cup {[Act(TRUE, Undefined) EXCEPT !.calls = calls]}
        \cup {[Act(FALSE, Undefined) EXCEPT !.calls = calls, !.status = st] :
                st \in FinishStatus}

\* A query that calls function fn_oid, whose user code does `body`
Query(fn_oid, body) == <<[fn |-> fn_oid, trig |-> NoTrig, body |-> body]>>

\* User code that runs no query, or one that calls function 2
Bodies == Outcomes(<<>>) \cup UNION {Outcomes(Query(2, b)) : b \in Outcomes(<<>>)}

InitSPI == InitWith({[f \in Fns |-> ProcTup(1, PlainFn)]})

NextSPI ==
    \/ \E body \in Bodies, start \in Outcomes(<<>>) :
            CallHandler(1, FALSE, NoTrig, body, start, "same")
    \/ \E start \in Outcomes(<<>>) : Validator(1, start, "same")
    \/ \E body \in Outcomes(<<>>), start \in Outcomes(<<>>) :
            InlineHandler("ok", body, start, "same")
    \/ XactEnd
    \/ \E v \in {Empty, New("fn2")} : SetStartProc(v)
    \/ FmgrInfo(1, 1)

SpecSPI == InitSPI /\ [][NextSPI]_vars

\* The "called" events of the last entry point: one for each invocation of a
\* function of the engine that opened a session
Invocations == {i \in 1..Len(out.ev) : out.ev[i].e = "called"}

\* C11: every invocation that opened an SPI session has closed it when its
\* outcome is reported (it returns, it throws, or SPI_finish fails): as many
\* sessions are open then as were when it was invoked; and as many sessions
\* are open when an entry point returns or fails as were when it was entered.
C11_SessionsClosed ==
    /\ \A i \in Invocations : out.ev[i].open = out.ev[i].before
    /\ out.op \in {"call", "validate", "inline"} => out.spi = 0

\* C11, witness: the user code of a call ran a query whose function threw,
\* then SPI_finish failed for the call itself
C11_NestedFailures ==
    /\ out.op = "call"
    /\ out.status = "error"
    /\ out.body.status < 0
    /\ out.body.calls # <<>>
    /\ out.body.calls[1].body.throws
    /\ \E i, j \in Invocations : i < j /\ out.ev[i].before = 1 /\ out.ev[j].before = 0

----------------------------------------------------------------------------
(* SpecNested: set-returning calls, one inside the other. Functions 1 and 2  *)
(* return sets; the user code of a call can run a query that calls          *)
(* function 2; there is one principal.                                      *)

\* User code of a set-returning function that runs no query, or one that
\* calls function 2
NestedBodies ==
    Acts({Undefined})
        \cup {[a EXCEPT !.calls = Query(2, b)] :
                a \in Acts({Undefined}), b \in Acts({Undefined})}

InitNested == InitWith({[f \in Fns |-> ProcTup(1, SetFn)]})

NextNested ==
    \/ \E s \in Sites, body \in NestedBodies :
            CallHandler(s, FALSE, NoTrig, body, NoBody, "same")
    \/ XactEnd
    \/ \E s \in Sites, f \in Fns : FmgrInfo(s, f)

SpecNested == InitNested /\ [][NextNested]_vars

\* The "srf" events of the last entry point: one for each set-returning call
SetCalls == {i \in 1..Len(out.ev) : out.ev[i].e = "srf"}

\* C12: when a set-returning call nested in another is over, whether it
\* returned or failed, the converter and tuplestore fields of the plv8 object
\* are those of the outer call; when a top-level set-returning call is over,
\* the fields do not hold the converter and tuplestore of that call.
C12_BindingRestored ==
    \A i \in SetCalls :
        IF out.ev[i].frame > 1
        THEN out.ev[i].left = New(out.ev[i].frame - 1)
        ELSE out.ev[i].left # New(out.ev[i].frame)

----------------------------------------------------------------------------
(* SpecConvert: the Converter as a function. A converter is built for a row  *)
(* type of one or two int4 columns; a row is converted to an object and     *)
(* that object back to a row, or an engine value is converted to a row.     *)

\* The row types: the names of their columns, in order. The columns of a
\* query result need not have different names.
RowTypes == {<<"a">>, <<"a", "b">>, <<"b", "a">>, <<"a", "a">>}

\* The columns of a row
Columns == {NullDatum, Datum(1), Datum(2)}

\* The rows of a row type
Rows(colnames) == [1..Len(colnames) -> Columns]

\* The values of a property
Properties == {Undefined, Null, Number(1), String("x")}

\* The engine values a converter is given
Values ==
    {Undefined, Null, Number(1), String("x"), Array(<<>>)}
        \cup {Object(p) : p \in UNION {[d -> Properties] : d \in SUBSET {"a", "b"}}}

\* What is to be converted: a row, or an engine value
Conversions ==
    {[op |-> "row", status |-> "ok", ev |-> <<>>, colnames |-> cn, is_scalar |-> sc,
      tuple |-> r] : cn \in RowTypes, sc \in {FALSE}, r \in UNION {Rows(c) : c \in RowTypes}}
    \cup
    {[op |-> "value", status |-> "ok", ev |-> <<>>, colnames |-> cn, is_scalar |-> sc,
      value |-> v] : cn \in RowTypes, sc \in BOOLEAN, v \in Values}

InitConvert ==
    /\ userid = 10
    /\ start_proc = Empty
    /\ pg_proc = [f \in Fns |-> ProcTup(1, PlainFn)]
    /\ cache = [f \in Fns |-> Empty]
    /\ ContextVector = <<>>
    /\ env = [k \in 1..MaxEnv |-> FreeEnv]
    /\ exec_env_head = <<>>
    /\ flinfo = [s \in Sites |-> [fn_oid |-> 1, fn_extra |-> Empty]]
    /\ thisXact = {}
    /\ lastGet = [f \in Fns |-> Empty]
    /\ out \in {c \in Conversions : c.op = "row" => Len(c.tuple) = Len(c.colnames)}

\* conv.ToValue(tuple)
RowToValue ==
    /\ out.op = "row"
    /\ out' = [op |-> "tovalue", status |-> "ok", ev |-> <<>>,
               colnames |-> out.colnames, is_scalar |-> out.is_scalar,
               tuple |-> out.tuple,
               value |-> ConverterToValue(out.colnames, out.tuple)]
    /\ UNCHANGED <<userid, start_proc, pg_proc, cache, ContextVector, env,
                   exec_env_head, flinfo, thisXact, lastGet>>

\* conv.ToDatum(conv.ToValue(tuple))
ValueToRow ==
    /\ out.op = "tovalue"
    /\ out' = [op |-> "roundtrip", status |-> "ok", ev |-> <<>>,
               colnames |-> out.colnames, is_scalar |-> out.is_scalar,
               tuple |-> out.tuple, value |-> out.value,
               result |-> ConverterToDatum(out.colnames, out.is_scalar, out.value)]
    /\ UNCHANGED <<userid, start_proc, pg_proc, cache, ContextVector, env,
                   exec_env_head, flinfo, thisXact, lastGet>>

\* conv.ToDatum(value)
ValueToDatum ==
    /\ out.op = "value"
    /\ out' = [op |-> "todatum", status |-> "ok", ev |-> <<>>,
               colnames |-> out.colnames, is_scalar |-> out.is_scalar,
               value |-> out.value,
               result |-> ConverterToDatum(out.colnames, out.is_scalar, out.value)]
    /\ UNCHANGED <<userid, start_proc, pg_proc, cache, ContextVector, env,
                   exec_env_head, flinfo, thisXact, lastGet>>

NextConvert == RowToValue \/ ValueToRow \/ ValueToDatum

SpecConvert == InitConvert /\ [][NextConvert]_vars

\* C13: a row of a row type, converted to an object by Converter::ToValue and
\* back by Converter::ToDatum, comes back with the same value and the same
\* NULL flag in every column.
C13_RoundTrip ==
    out.op = "roundtrip" => out.result.ok /\ out.result.val = out.tuple

\* An object was converted to a row by a converter that is not scalar-shaped
ObjectToRow ==
    /\ out.op = "todatum"
    /\ ~out.is_scalar
    /\ IsObject(out.value)

\* The column c of the last conversion has no value: the property of its
\* name is missing, undefined or null
NoValue(c) ==
    \/ out.value.t # "object"
    \/ out.colnames[c] \notin DOMAIN out.value.props
    \/ out.value.props[out.colnames[c]] \in {Undefined, Null}

\* C14: when an object is converted to a row, a column whose property is
\* missing, undefined or null becomes NULL and does not make the conversion
\* fail; every other column is the scalar conversion of the property named
\* after it, and the conversion fails only if one of these fails.
C14_MissingIsNull ==
    ObjectToRow =>
        LET cols == 1..Len(out.colnames)
            given == {c \in cols : ~NoValue(c)}
            scalar(c) == ToDatum(out.value.props[out.colnames[c]])
        IN  /\ out.result.ok = (\A c \in given : scalar(c).ok)
            /\ out.result.ok =>
                 \A c \in cols :
                    out.result.val[c] = IF c \in given THEN scalar(c).val ELSE NullDatum

\* C14, witness: an object with a number for the first column and nothing
\* for the second became a row of that number and NULL
C14_OneMissing ==
    /\ ObjectToRow
    /\ out.colnames = <<"a", "b">>
    /\ out.value = Object([n \in {"a"} |-> Number(1)])
    /\ out.result.ok
    /\ out.result.val = <<Datum(1), NullDatum>>

----------------------------------------------------------------------------
(* SpecInline: anonymous code blocks. Blocks are run, by two principals,    *)
(* with and without a start-up function (function 2); the code of a block   *)
(* can run a query that calls function 1; function 1 is also called by the  *)
(* host.                                                                    *)

InlineBodies ==
    Acts({Undefined})
        \cup {[Act(FALSE, Undefined) EXCEPT !.calls = Query(1, Act(FALSE, Undefined))]}

InitInline == InitWith({[f \in Fns |-> ProcTup(1, PlainFn)]})

NextInline ==
    \/ \E src \in {"ok", "syntax"}, body \in InlineBodies, start \in Acts({Undefined}) :
            InlineHandler(src, body, start, "same")
    \/ \E body \in Acts({Undefined}), start \in Acts({Undefined}) :
            CallHandler(1, FALSE, NoTrig, body, start, "same")
    \/ XactEnd
    \/ \E u \in Users : SetUserId(u)
    \/ \E v \in {Empty, New("fn2")} : SetStartProc(v)
    \/ FmgrInfo(1, 1)

SpecInline == InitInline /\ [][NextInline]_vars

\* The function ids of the procedure cache c, each with its compiled artifact
Artifacts(c) ==
    [f \in {g \in Fns : ~IsEmpty(c[g])} |-> Deref(c[f]).function]

\* C16 as stated, for anonymous code that runs no query: the function ids in
\* the procedure cache and the compiled artifact of every entry are the same
\* after an inline call as before it, whether the call succeeds or fails.
C16_InlineLeavesCache ==
    [][out'.op = "inline" /\ out'.body.calls = <<>>
          => Artifacts(cache') = Artifacts(cache)]_vars

\* The entry of function f is, or has another artifact than it had
Touched(f) ==
    \/ IsEmpty(cache[f]) # IsEmpty(cache'[f])
    \/ ~IsEmpty(cache[f]) /\ Deref(cache[f]).function # Deref(cache'[f]).function

\* Function f is the start-up function and the entry point made a context
StartedUp(f) ==
    /\ ~IsEmpty(start_proc)
    /\ regprocin(Deref(start_proc)) = New(f)
    /\ \E i \in 1..Len(out'.ev) : out'.ev[i].e = "newctx"

\* C16, amended: an inline call makes no entry for the anonymous code; the
\* entries that are not the same after the call as before are that of the
\* start-up function, when the call made the context of the principal, and
\* those of the functions called by the queries the code ran.
C16_InlineCachesOnlyStartProc ==
    [][out'.op = "inline" =>
          \A f \in Fns :
              Touched(f) =>
                  \/ StartedUp(f)
                  \/ \E i \in 1..Len(out'.body.calls) : out'.body.calls[i].fn = f]_vars

\* C16, witness: anonymous code was compiled and run, and the procedure cache
\* has no entry
C16_RanUncached ==
    /\ out.op = "inline"
    /\ out.status = "ok"
    /\ \E i \in 1..Len(out.ev) : out.ev[i].e = "exec" /\ out.ev[i].art.fn = 0
    /\ \A f \in Fns : IsEmpty(cache[f])

----------------------------------------------------------------------------
(* The message of a script error, as the host sees it                      *)

\* The texts of the exceptions a script throws: with the prefix, without it,
\* the prefix alone, and the prefix elsewhere than at the start
Exceptions ==
    {ErrorPrefix \o <<"x">>, <<"x">>, ErrorPrefix, <<"x">> \o ErrorPrefix,
     ErrorPrefix \o ErrorPrefix}

\* User code that throws one of these, or returns
Throwers ==
    {[Act(TRUE, Undefined) EXCEPT !.exception = m] : m \in Exceptions}
        \cup {Act(FALSE, Number(1))}

InitMsg == InitWith({[f \in Fns |-> ProcTup(1, PlainFn)]})

NextMsg ==
    \/ \E body \in Throwers, start \in Throwers :
            CallHandler(1, FALSE, NoTrig, body, start, "same")
    \/ \E src \in {"ok", "syntax"}, body \in Throwers, start \in Throwers :
            InlineHandler(src, body, start, "same")
    \/ \E start \in Throwers : Validator(1, start, "same")
    \/ XactEnd
    \/ \E v \in {Empty, New("fn2")} : SetStartProc(v)
    \/ FmgrInfo(1, 1)

SpecMsg == InitMsg /\ [][NextMsg]_vars

\* The entry point surfaced the exception that the user code of the call threw
Surfaced ==
    /\ out.op \in {"call", "inline"}
    /\ out.status = "error"
    /\ out.body.throws
    /\ "errmsg" \in DOMAIN out.val
    /\ \E i \in 1..Len(out.ev) : out.ev[i].e = "exec" /\ out.ev[i].art.fn # 2

\* C18: when an entry point surfaces a script error, the message the host sees
\* is the text of the exception without a leading "Error: ", and is the text
\* itself when it does not begin with "Error: ".
C18_PrefixRemoved ==
    Surfaced =>
        out.val.errmsg = error_object(out.body.exception)

----------------------------------------------------------------------------
(* The execution environments of the transaction and the registry          *)

\* The contexts of the Global Context Registry
Registered == {ContextVector[i].context : i \in 1..Len(ContextVector)}

\* C19: every execution environment linked in the list of the transaction has
\* a context, and that context is one of the registry; also after an entry
\* point that failed.
C19_LinkedEnvHasRegisteredContext ==
    \A j \in 1..Len(exec_env_head) :
        /\ ~IsEmpty(env[exec_env_head[j]].context)
        /\ Deref(env[exec_env_head[j]].context) \in Registered

\* C19, witness: the entry point made the context of the principal and an
\* execution environment, then failed in the user code; the environment is
\* linked, and another one with another context is linked behind it
C19_LinkedAfterFailure ==
    /\ out.op \in {"call", "inline"}
    /\ out.status = "error"
    /\ \E i \in 1..Len(out.ev) : out.ev[i].e = "newctx"
    /\ \E i \in 1..Len(out.ev) : out.ev[i].e = "exec"
    /\ Len(exec_env_head) >= 2
    /\ env[exec_env_head[1]].context # env[exec_env_head[2]].context

----------------------------------------------------------------------------
(* SpecStartup: the start-up function and the context it is run for. The   *)
(* start-up function is function 2, whose source compiles or not, or a     *)
(* name that resolves to nothing; its code may run a query that calls      *)
(* function 1.                                                             *)

StartBodies ==
    Acts({Undefined})
        \cup {[Act(FALSE, Undefined) EXCEPT !.calls = Query(1, Act(FALSE, Undefined))]}

InitStartup ==
    InitWith({p \in [Fns -> {ProcTup(1, d) : d \in {PlainFn, SyntaxFn}}] :
                 p[1].def = PlainFn})

NextStartup ==
    \/ \E body \in Acts({Undefined}), start \in StartBodies :
            CallHandler(1, FALSE, NoTrig, body, start, "same")
    \/ \E body \in Acts({Undefined}), start \in StartBodies :
            InlineHandler("ok", body, start, "same")
    \/ XactEnd
    \/ \E u \in Users : SetUserId(u)
    \/ \E v \in {Empty, New("fn2"), New("nosuch")} : SetStartProc(v)
    \/ FmgrInfo(1, 1)

SpecStartup == InitStartup /\ [][NextStartup]_vars

\* The context ctx is made at event i of the history ev
MadeAt(ev, i, ctx) == ev[i].e = "newctx" /\ ev[i].ctx = ctx

\* The start-up function is invoked for context ctx at event i of ev
StartedAt(ev, i, ctx) == ev[i].e = "startup" /\ ev[i].ctx = ctx

\* User code of context ctx runs at event i of ev
RunsAt(ev, i, ctx) == ev[i].e = "exec" /\ ev[i].art.ctx = ctx

\* C20: an entry point makes at most one context for a principal, the
\* registry has one context for a principal, the start-up function is invoked
\* for a context only when it is made and once, and user code of a context
\* made while a start-up function is configured runs only after the start-up
\* function was invoked for that context: in the entry point that makes the
\* context, and in the one that follows it.
C20_StartProcOnceAndFirst ==
    [][/\ \A i, j \in 1..Len(out'.ev) :
              (out'.ev[i].e = "newctx" /\ out'.ev[j].e = "newctx"
                  /\ out'.ev[i].user = out'.ev[j].user) => i = j
       /\ \A i, j \in 1..Len(ContextVector') :
              ContextVector'[i].user_id = ContextVector'[j].user_id => i = j
       /\ \A j \in 1..Len(out'.ev) :
              out'.ev[j].e = "startup" =>
                  /\ \E i \in 1..(j - 1) : MadeAt(out'.ev, i, out'.ev[j].ctx)
                  /\ \A k \in 1..Len(out'.ev) :
                         StartedAt(out'.ev, k, out'.ev[j].ctx) => k = j
       /\ ~IsEmpty(start_proc) =>
              \A i \in 1..Len(out'.ev) :
                  out'.ev[i].e = "newctx" =>
                      \A j \in 1..Len(out'.ev) :
                          RunsAt(out'.ev, j, out'.ev[i].ctx) =>
                              \E k \in 1..(j - 1) : StartedAt(out'.ev, k, out'.ev[i].ctx)
       /\ ~IsEmpty(start_proc) =>
              \A i \in 1..Len(out.ev) :
                  (/\ out.ev[i].e = "newctx"
                   /\ \A k \in 1..Len(out.ev) : ~StartedAt(out.ev, k, out.ev[i].ctx))
                      => \A j \in 1..Len(out'.ev) : ~RunsAt(out'.ev, j, out.ev[i].ctx)]_vars

----------------------------------------------------------------------------
(* The procedure cache entry that Compile leaves, checked under Spec       *)

\* Compile returned for function f in the entry point whose history is ev
GotOk(ev, f) == \E i \in 1..Len(ev) : ev[i].e = "got" /\ ev[i].fn = f /\ ev[i].ok

\* The entry c holds an artifact and is that of the catalog row procTup and
\* of the principal uid
ValidFor(c, procTup, uid) ==
    /\ ~IsEmpty(c.function)
    /\ c.fn_xmin = procTup.xmin
    /\ c.fn_tid = procTup.t_self
    /\ c.user_id = uid
    /\ c.argtypes = procTup.def.proargtypes
    /\ c.nargs = Len(procTup.def.proargtypes)
    /\ c.rettype = procTup.def.prorettype
    /\ c.retset = procTup.def.proretset

\* The entry of f holds an artifact of another catalog row or another principal
Mismatch(f) ==
    /\ ~IsEmpty(cache[f])
    /\ ~IsEmpty(Deref(cache[f]).function)
    /\ \/ Deref(cache[f]).fn_xmin # pg_proc[f].xmin
       \/ Deref(cache[f]).fn_tid # pg_proc[f].t_self
       \/ Deref(cache[f]).user_id # userid

\* C21: when Compile has returned for a function, its cache entry holds an
\* artifact, and the fingerprint, the owner and the argument and result types
\* of the entry are those of the catalog row and of the principal of the
\* session; and when the entry held an artifact of another fingerprint or
\* owner, the function was compiled again.
C21_EntryValidAfterCompile ==
    [][\A f \in Fns :
          GotOk(out'.ev, f) =>
              /\ ~IsEmpty(cache'[f])
              /\ ValidFor(Deref(cache'[f]), pg_proc[f], userid)
              /\ Mismatch(f) =>
                    \E i \in 1..Len(out'.ev) :
                        out'.ev[i].e = "compile" /\ out'.ev[i].fn = f]_vars

\* C21, witness: Compile has returned for function 1, whose entry held an
\* artifact of another principal and of another catalog row with other
\* argument types; the entry is now that of the row and of the principal
C21_RebuiltAfterMismatch ==
    /\ out.op = "call"
    /\ GotOk(out.ev, 1)
    /\ \E i \in 1..Len(out.ev) : out.ev[i].e = "get" /\ out.ev[i].fn = 1 /\ out.ev[i].disposed
    /\ ValidFor(Deref(cache[1]), pg_proc[1], userid)

----------------------------------------------------------------------------
(* The end of a transaction, checked under SpecMsg: environments are made  *)
(* by the call handler, the inline handler and the validator               *)

\* The record of environment k as plv8_xact_cb left it
Released(k) == out'.released[k]

\* The callback ran on an empty list and changed nothing
NothingToRelease ==
    exec_env_head = <<>> =>
        /\ env' = env
        /\ out'.released = env
        /\ cache' = cache
        /\ ContextVector' = ContextVector

----------------------------------------------------------------------------
(* Compilation in trigger mode, checked under SpecValidate                 *)

\* The entry of function f holds no artifact compiled in trigger mode
NoTriggerArtifact(f) ==
    \/ IsEmpty(cache[f])
    \/ IsEmpty(Deref(cache[f]).function)
    \/ ~Deref(Deref(cache[f]).function).trig

\* C23: a compilation in trigger mode of a function that declares arguments
\* fails with an error and leaves no artifact compiled in trigger mode; an
\* artifact compiled in trigger mode is that of a function without arguments
\* and its parameters are NEW, OLD, TG_NAME, TG_WHEN, TG_LEVEL, TG_OP,
\* TG_RELID, TG_TABLE_NAME, TG_TABLE_SCHEMA, TG_ARGV, in this order.
C23_TriggerCompile ==
    /\ \A i \in 1..Len(out.ev) :
          /\ (out.ev[i].e = "compilefail" /\ out.ev[i].trig /\ out.ev[i].nargs >= 1) =>
                /\ out.ev[i].why = "trigger function cannot have arguments"
                /\ out.status = "error"
                /\ NoTriggerArtifact(out.ev[i].fn)
          /\ (out.ev[i].e = "compile" /\ out.ev[i].art.trig) =>
                /\ Len(pg_proc[out.ev[i].fn].def.proargtypes) = 0
                /\ Len(out.ev[i].art.params) = 10
                /\ out.ev[i].art.params = TriggerParams
    /\ (/\ out.op = "validate"
        /\ ValidatorIsTrigger(pg_proc[out.fn].def)
        /\ Len(pg_proc[out.fn].def.proargtypes) >= 1
        /\ \E i \in 1..Len(out.ev) :
              out.ev[i].e = "get" /\ out.ev[i].fn = out.fn /\ ~out.ev[i].hit)
       => /\ out.status = "error"
          /\ \E i \in 1..Len(out.ev) :
                out.ev[i].e = "compilefail" /\ out.ev[i].fn = out.fn /\ out.ev[i].trig

\* C23, witness: the validation of a function that returns trigger and
\* declares an argument failed in the compilation, and the function has no
\* artifact
C23_TriggerWithArgumentRejected ==
    /\ out.op = "validate"
    /\ pg_proc[out.fn].def = TrigArgFn
    /\ out.status = "error"
    /\ \E i \in 1..Len(out.ev) :
          out.ev[i].e = "compilefail" /\ out.ev[i].trig /\ out.ev[i].nargs = 1
    /\ IsEmpty(Deref(cache[out.fn]).function)

----------------------------------------------------------------------------
(* SpecTrigMode: function 1 is a trigger function, fired through call site *)
(* 1; it can be the start-up function, and it or the plain function 2 is   *)
(* called plainly through call site 2.                                     *)

InitTrigMode ==
    InitWith({p \in [Fns -> {ProcTup(1, d) : d \in {TrigFn, PlainFn}}] :
                 p[1].def = TrigFn /\ p[2].def = PlainFn})

NextTrigMode ==
    \/ \E body \in Acts({Undefined}), start \in Acts({Undefined}) :
            CallHandler(1, TRUE, UpdateRow, body, start, "same")
    \/ \E body \in Acts({Undefined}), start \in Acts({Undefined}) :
            CallHandler(2, FALSE, NoTrig, body, start, "same")
    \/ XactEnd
    \/ \E v \in {Empty, New("fn1")} : SetStartProc(v)
    \/ FmgrInfo(1, 1)
    \/ \E f \in Fns : FmgrInfo(2, f)

SpecTrigMode == InitTrigMode /\ [][NextTrigMode]_vars

\* The runs of user code of the last entry point that are not the run of the
\* start-up function
CallRuns == {i \in Executions : i = 1 \/ out.ev[i - 1].e # "startup"}

\* C24: every artifact a trigger call executes was compiled in trigger mode,
\* with the parameter list of a trigger function.
C24_TriggerRunsTriggerArtifact ==
    (out.op = "call" /\ out.trigger) =>
        \A i \in CallRuns :
            /\ out.ev[i].art.trig
            /\ out.ev[i].art.params = TriggerParams

----------------------------------------------------------------------------
(* The context a call runs in, checked under Spec                          *)

\* The run of user code at event i of the last entry point entered the
\* context the registry has for the principal of the session, and the
\* artifact it executed was compiled in that context
InContextOfPrincipal(i) ==
    LET k == FindContext(ContextVector, out.ev[i].user, 1)
    IN  /\ k # 0
        /\ out.ev[i].entered = ContextVector[k].context
        /\ out.ev[i].art.ctx = out.ev[i].entered

\* C25: every execution of a function enters the context of the principal
\* that is effective at the call and executes an artifact compiled in that
\* context, also at a call site that was bound by an earlier call.
C25_RunsInContextOfPrincipal ==
    out.op = "call" => \A i \in Executions : InContextOfPrincipal(i)

----------------------------------------------------------------------------
(* The registry of contexts, checked under SpecInline                      *)

\* The context the registry cv has for principal uid, if any
ContextOf(cv, uid) ==
    IF FindContext(cv, uid, 1) = 0 THEN Empty
    ELSE New(cv[FindContext(cv, uid, 1)].context)

\* C26: the registry has at most one context for a principal, and no two
\* entries share a context; a step leaves every entry in its place, with its
\* principal and its context; and every environment an entry point makes gets
\* the context the registry has for the principal of the session, which is
\* the one it had before the entry point if it had one.
C26_OneContextForEver ==
    [][/\ \A i, j \in 1..Len(ContextVector') :
              (\/ ContextVector'[i].user_id = ContextVector'[j].user_id
               \/ ContextVector'[i].context = ContextVector'[j].context) => i = j
       /\ Len(ContextVector') >= Len(ContextVector)
       /\ \A i \in 1..Len(ContextVector) :
              /\ ContextVector'[i].user_id = ContextVector[i].user_id
              /\ ContextVector'[i].context = ContextVector[i].context
       /\ \A k \in DOMAIN env :
              (~env[k].alloc /\ env'[k].alloc) =>
                  /\ env'[k].context = ContextOf(ContextVector', userid)
                  /\ ~IsEmpty(ContextOf(ContextVector, userid)) =>
                        env'[k].context = ContextOf(ContextVector, userid)]_vars

\* C26, witness: two principals have a context each, and the last entry
\* point ran user code in an environment it made without making a context
C26_SecondRequestSameContext ==
    /\ Len(ContextVector) = 2
    /\ out.op \in {"call", "inline"}
    /\ out.status = "ok"
    /\ \A i \in 1..Len(out.ev) : out.ev[i].e # "newctx"
    /\ \E i \in Executions : out.ev[i].entered = Deref(ContextOf(ContextVector, userid))
    /\ exec_env_head # <<>>

----------------------------------------------------------------------------
(* The result of a trigger call for every kind of event, under SpecTrigger *)

\* The last entry point was a trigger call whose function returned
TriggerReturned ==
    /\ out.op = "call"
    /\ out.trigger
    /\ out.status # "crash"
    /\ Executions # {}
    /\ ~out.body.throws

\* C27: a row-level INSERT or DELETE trigger results in the trigger row
\* whatever the function returns; a statement-level trigger results in the
\* empty datum, NEW and OLD being undefined; NEW is the row and OLD is
\* undefined on INSERT, OLD is the row and NEW is undefined on DELETE, and
\* both are rows on UPDATE.
C27_TriggerResults ==
    TriggerReturned =>
        /\ (out.trig.row /\ out.trig.op \in {"INSERT", "DELETE"}) =>
              /\ out.status = "ok"
              /\ out.val.result = TupleDatum(out.trig.tg_trigtuple)
        /\ ~out.trig.row =>
              /\ out.status = "ok"
              /\ out.val.result = ZeroDatum
              /\ IsUndefined(out.val.new)
              /\ IsUndefined(out.val.old)
        /\ (out.trig.row /\ out.trig.op = "INSERT") =>
              /\ out.val.new = ConverterToValue(RelCols, out.trig.tg_trigtuple)
              /\ IsUndefined(out.val.old)
        /\ (out.trig.row /\ out.trig.op = "DELETE") =>
              /\ IsUndefined(out.val.new)
              /\ out.val.old = ConverterToValue(RelCols, out.trig.tg_trigtuple)
        /\ (out.trig.row /\ out.trig.op = "UPDATE" /\ out.status = "ok") =>
              /\ out.val.new = ConverterToValue(RelCols, out.trig.tg_newtuple)
              /\ out.val.old = ConverterToValue(RelCols, out.trig.tg_trigtuple)

====
